---- MODULE Spec2Model ----
(***************************************************************************)
(* A model of the Undertaker node (src/unnamed/part_004): the object       *)
(* validator, chain selection, mempool reorganization and the per-socket   *)
(* 'data' handler.  A step of the model is the piece of a handler that     *)
(* runs between two suspension points (awaits) of the TypeScript code;     *)
(* the steps of different handlers interleave, as they do on the Node.js   *)
(* event loop.                                                             *)
(***************************************************************************)
EXTENDS Integers, Sequences, FiniteSets, TLC

VARIABLES db, utxos, utxoPuts, chaintip, mempoolUTXOs, mempoolTXs, peers, sockets, ss, hd, sent,
          dials

vars == <<db, utxos, utxoPuts, chaintip, mempoolUTXOs, mempoolTXs, peers, sockets, ss, hd, sent,
          dials>>

----------------------------------------------------------------------------
(* Program constants.  Values are in units of 10^12 picocoin.              *)

MAX_MESSAGE_LENGTH == 1024000000
DESIRED_CONNECTIONS == 0
BLOCK_REWARD == 50
\* The block hash and the target are compared as hex strings; HashOrd gives
\* the rank of an id in that order and BLOCK_POW_TARGET the rank of T.
BLOCK_POW_TARGET == 8
\* Math.floor(Date.now() / 1000) at the time of validation.
NOW == 5

GENESIS_BLOCK == "G"
CHAINTIP == "<<CHAINTIP>>"
NULL == "null"

----------------------------------------------------------------------------
(* Bounds of the model.                                                    *)

\* data handlers of one socket that may be in flight at the same time
MaxInFlight == 2
\* tokens a socket buffer may hold (the peers send no more than this)
MaxBuffer == 3

Sessions == {"s1", "s2"}
Slots == 1..MaxInFlight

----------------------------------------------------------------------------
(* The objects the peers may deliver.  An object is the record the zod     *)
(* schema of types.ts admits; a coinbase has a height and no inputs, a     *)
(* regular transaction has inputs and no height.                           *)

Out(pk, v) == [pubkey |-> pk, value |-> v]
In(txid, index, sig) == [outpoint |-> [txid |-> txid, index |-> index], sig |-> sig]
Coinbase(h, pk, v) == [type |-> "transaction", height |-> h, outputs |-> <<Out(pk, v)>>]
Regular(ins, outs) == [type |-> "transaction", inputs |-> ins, outputs |-> outs]
Block(prev, txids, created, nonce) ==
    [type |-> "block", previd |-> prev, txids |-> txids, created |-> created,
     T |-> BLOCK_POW_TARGET, nonce |-> nonce]

\* A signature is modelled by the key that made it: it verifies against a
\* public key exactly when it was made with that key (ed.verify).
Objects ==
    [ G   |-> Block(NULL, <<>>, 1, "nG"),
      A   |-> Block("G", <<"cA">>, 2, "nA"),
      A2  |-> Block("G", <<>>, 2, "nA2"),
      B   |-> Block("A", <<"t1">>, 3, "nB"),
      X   |-> Block("A", <<"cA">>, 3, "nX"),
      cA  |-> Coinbase(1, "k1", 50),
      t1  |-> Regular(<<In("cA", 0, "k1")>>, <<Out("k4", 40)>>),
      \* blocks that fail one check of validateObject each
      G2  |-> Block(NULL, <<>>, 1, "nG2"),
      Pw  |-> Block("G", <<>>, 2, "nPw"),
      Fu  |-> Block("G", <<>>, 6, "nFu"),
      Ts  |-> Block("A", <<>>, 2, "nTs"),
      Pt  |-> Block("cA", <<>>, 3, "nPt"),
      D   |-> Block("A", <<"t1", "t2">>, 3, "nD"),
      Y   |-> Block("G", <<"cA", "t1">>, 2, "nY"),
      Z   |-> Block("G", <<"cZ">>, 2, "nZ"),
      F2  |-> Block("A", <<"cF2", "t1">>, 3, "nF2"),
      \* a block whose coinbase takes the reward and the fee of t1
      F1  |-> Block("A", <<"cF1", "t1">>, 3, "nF1"),
      t2  |-> Regular(<<In("cA", 0, "k1")>>, <<Out("k5", 30)>>),
      cZ  |-> Coinbase(1, "k1", 51),
      cF1 |-> Coinbase(2, "k2", 60),
      cF2 |-> Coinbase(2, "k2", 61),
      \* a transaction without inputs, and one that spends its output
      t0  |-> Regular(<<>>, <<Out("k0", 0)>>),
      t3  |-> Regular(<<In("t0", 0, "k0")>>, <<>>),
      \* a block without transactions on A
      E   |-> Block("A", <<>>, 3, "nE") ]

ObjIds == DOMAIN Objects

\* rank of an object id among the 64-hex strings (only blocks are compared)
HashOrd(id) == IF Objects[id].type = "block" /\ id # "Pw" THEN 1 ELSE 9

\* hashObject: the id of an object is a function of its canonical content
hashObject(object) == CHOOSE id \in ObjIds : Objects[id] = object

validateStringSignature(sig, publicKey) == sig = publicKey

----------------------------------------------------------------------------
(* UTXO sets are arrays of {txid, index, value}.                           *)

hasUTXO(utxoSet, txid, index) ==
    ~(\A i \in 1..Len(utxoSet) : utxoSet[i].txid # txid \/ utxoSet[i].index # index)

getUTXO(utxoSet, txid, index) ==
    utxoSet[CHOOSE i \in 1..Len(utxoSet) :
              /\ utxoSet[i].txid = txid /\ utxoSet[i].index = index
              /\ \A j \in 1..(i-1) : ~(utxoSet[j].txid = txid /\ utxoSet[j].index = index)]

withUTXO(utxoSet, txid, index, value) ==
    Append(utxoSet, [txid |-> txid, index |-> index, value |-> value])

NotThisUTXO(u, txid, index) == u.txid # txid \/ u.index # index

\* a withoutUTXO that removes nothing
withoutUTXOKeeps(utxoSet, txid, index) == utxoSet

withoutUTXO(utxoSet, txid, index) ==
    LET keep(u) == NotThisUTXO(u, txid, index) IN SelectSeq(utxoSet, keep)

\* the outputs of tx added one by one, output number index-1 as in forEach
RECURSIVE AddOutputs(_, _, _, _)
AddOutputs(utxoSet, txid, outputs, n) ==
    IF n > Len(outputs) THEN utxoSet
    ELSE AddOutputs(withUTXO(utxoSet, txid, n - 1, outputs[n].value), txid, outputs, n + 1)

RECURSIVE SumValues(_)
SumValues(outputs) ==
    IF outputs = <<>> THEN 0 ELSE Head(outputs).value + SumValues(Tail(outputs))

\* the loop over tx.inputs: r is [err, utxoSet, fee]
RECURSIVE SpendInputs(_, _)
SpendInputs(r, inputs) ==
    IF inputs = <<>> \/ r.err # "OK" THEN r
    ELSE LET op == Head(inputs).outpoint IN
         IF ~hasUTXO(r.utxoSet, op.txid, op.index)
         THEN [r EXCEPT !.err = "INVALID_TX_OUTPOINT"]
         ELSE SpendInputs(
                [err |-> "OK",
                 utxoSet |-> withoutUTXO(r.utxoSet, op.txid, op.index),
                 fee |-> r.fee + getUTXO(r.utxoSet, op.txid, op.index).value],
                Tail(inputs))

\* updateUTXO(utxoSet, tx, txFeeHandler): the new set and what the fee handler
\* was given in total, or the error thrown (the caller's set is not changed).
updateUTXO(utxoSet, tx) ==
    LET txid == hashObject(tx) IN
    IF "inputs" \in DOMAIN tx
    THEN LET r == SpendInputs([err |-> "OK", utxoSet |-> utxoSet, fee |-> 0], tx.inputs) IN
         IF r.err # "OK" THEN [err |-> r.err, utxoSet |-> utxoSet, fee |-> 0]
         ELSE [err |-> "OK",
               utxoSet |-> AddOutputs(r.utxoSet, txid, tx.outputs, 1),
               fee |-> r.fee - SumValues(tx.outputs)]
    ELSE [err |-> "OK", utxoSet |-> AddOutputs(utxoSet, txid, tx.outputs, 1), fee |-> 0]

\* applyTransaction(tx, currentUTXOs, currentTXs)
applyTransaction(tx, currentUTXOs, currentTXs) ==
    LET r == updateUTXO(currentUTXOs, tx) IN
    IF r.err # "OK" THEN [err |-> r.err, utxos |-> currentUTXOs, txs |-> currentTXs]
    ELSE [err |-> "OK", utxos |-> r.utxoSet, txs |-> Append(currentTXs, hashObject(tx))]

\* an attemptApplyTransaction that rethrows INVALID_TX_OUTPOINT too
attemptRethrows(tx, currentUTXOs, currentTXs) ==
    applyTransaction(tx, currentUTXOs, currentTXs)

\* attemptApplyTransaction: INVALID_TX_OUTPOINT is caught, the rest rethrown
attemptApplyTransaction(tx, currentUTXOs, currentTXs) ==
    LET r == applyTransaction(tx, currentUTXOs, currentTXs) IN
    IF r.err = "INVALID_TX_OUTPOINT"
    THEN [err |-> "OK", utxos |-> currentUTXOs, txs |-> currentTXs]
    ELSE r

----------------------------------------------------------------------------
(* Reads of the level stores.  db.get of a missing key throws a NotFound   *)
(* error, which is no ProtocolError: it is written "Error" here.           *)

NoBlock == [type |-> "none"]
\* old_chaintip = null
NoTip == [hash |-> NULL, block |-> NoBlock, height |-> -1]

Has(store, key) == key \in DOMAIN store

\* a blockHeight that gives the genesis block the height 1
RECURSIVE blockHeightFromOne(_, _, _)
blockHeightFromOne(store, block, trustCoinbase) ==
    IF block.previd = NULL THEN [err |-> "OK", height |-> 1]
    ELSE IF Len(block.txids) > 0 /\ trustCoinbase /\ ~Has(store, block.txids[1])
    THEN [err |-> "Error", height |-> 0]
    ELSE IF Len(block.txids) > 0 /\ trustCoinbase /\ "height" \in DOMAIN store[block.txids[1]]
    THEN [err |-> "OK", height |-> store[block.txids[1]].height]
    ELSE IF ~Has(store, block.previd)
    THEN [err |-> "UNFINDABLE_OBJECT", height |-> 0]
    ELSE LET r == blockHeightFromOne(store, store[block.previd], TRUE) IN
         [err |-> r.err, height |-> r.height + 1]

\* blockHeight(block, trustCoinbase): [err, height]
RECURSIVE blockHeight(_, _, _)
blockHeight(store, block, trustCoinbase) ==
    IF block.previd = NULL THEN [err |-> "OK", height |-> 0]
    ELSE IF Len(block.txids) > 0 /\ trustCoinbase /\ ~Has(store, block.txids[1])
    THEN [err |-> "Error", height |-> 0]
    ELSE IF Len(block.txids) > 0 /\ trustCoinbase /\ "height" \in DOMAIN store[block.txids[1]]
    THEN [err |-> "OK", height |-> store[block.txids[1]].height]
    ELSE IF ~Has(store, block.previd)
    THEN [err |-> "UNFINDABLE_OBJECT", height |-> 0]
    ELSE LET r == blockHeight(store, store[block.previd], TRUE) IN
         [err |-> r.err, height |-> r.height + 1]

\* the "naive lifting" loop of forgottenTransactions: n more steps from a
RECURSIVE Lift(_, _, _, _)
Lift(store, newChaintip, a, n) ==
    IF n <= 0 THEN [err |-> "OK", hash |-> a]
    ELSE IF a = newChaintip.hash
    THEN Lift(store, newChaintip, newChaintip.block.previd, n - 1)
    ELSE IF ~Has(store, a) THEN [err |-> "Error", hash |-> a]
    ELSE Lift(store, newChaintip, store[a].previd, n - 1)

\* the lockstep walk of forgottenTransactions
RECURSIVE Lockstep(_, _, _)
Lockstep(store, oldAncestor, newAncestor) ==
    IF oldAncestor = newAncestor THEN [err |-> "OK", hash |-> oldAncestor]
    ELSE IF ~Has(store, oldAncestor) \/ ~Has(store, newAncestor)
    THEN [err |-> "Error", hash |-> oldAncestor]
    ELSE Lockstep(store, store[oldAncestor].previd, store[newAncestor].previd)

\* the collecting loop of forgottenTransactions, from currentBlockHash
RECURSIVE Collect(_, _, _, _, _)
Collect(store, newChaintip, currentBlockHash, oldAncestor, txids) ==
    IF currentBlockHash = oldAncestor THEN [err |-> "OK", txids |-> txids]
    ELSE IF currentBlockHash # newChaintip.hash /\ ~Has(store, currentBlockHash)
    THEN [err |-> "Error", txids |-> txids]
    ELSE LET currentBlock == IF currentBlockHash = newChaintip.hash
                             THEN newChaintip.block ELSE store[currentBlockHash]
         IN Collect(store, newChaintip, currentBlock.previd, oldAncestor,
                    currentBlock.txids \o txids)

\* forgottenTransactions(oldChaintip, newChaintip): [err, txids]
forgottenTransactions(store, oldChaintip, newChaintip) ==
    IF oldChaintip = NoTip
    THEN Collect(store, newChaintip, newChaintip.hash, NULL, <<>>)
    ELSE LET lifted == Lift(store, newChaintip, newChaintip.hash,
                            newChaintip.height - oldChaintip.height)
             anc == IF lifted.err = "OK"
                    THEN Lockstep(store, oldChaintip.hash, lifted.hash) ELSE lifted
         IN IF anc.err # "OK" THEN [err |-> anc.err, txids |-> <<>>]
            ELSE Collect(store, newChaintip, newChaintip.hash, anc.hash, <<>>)

\* the loop over transactionsToApply in validateObject: r is [err, utxos, txs]
RECURSIVE ApplyAll(_, _, _)
ApplyAll(store, r, txids) ==
    IF txids = <<>> \/ r.err # "OK" THEN r
    ELSE IF ~Has(store, Head(txids)) THEN [r EXCEPT !.err = "Error"]
    ELSE ApplyAll(store, attemptApplyTransaction(store[Head(txids)], r.utxos, r.txs),
                  Tail(txids))

\* the replay loop of validateObject: r is [err, utxoSet, fee]
RECURSIVE Replay(_, _)
Replay(r, transactions) ==
    IF transactions = <<>> \/ r.err # "OK" THEN r
    ELSE LET u == updateUTXO(r.utxoSet, Head(transactions)) IN
         Replay([err |-> u.err, utxoSet |-> u.utxoSet, fee |-> r.fee + u.fee],
                Tail(transactions))

----------------------------------------------------------------------------
(* The wire.  A chunk is a sequence of tokens; the token NL is the newline.*)
(* A line is the tokens before a newline.  types.Message.parse(JSON.parse) *)
(* maps a line to a message or throws (SyntaxError or ZodError).           *)

NL == "NL"

HelloLine == <<"hel", "lo">>
BareTypes == {"getpeers", "getchaintip", "getmempool"}
IdTypes == {"getobject", "ihaveobject", "chaintip", "mempool"}

Parses(line) ==
    \/ line = HelloLine
    \/ Len(line) = 1 /\ line[1] \in BareTypes
    \/ Len(line) = 2 /\ line[1] \in IdTypes \cup {"object"} /\ line[2] \in ObjIds
    \/ Len(line) = 2 /\ line[1] = "peers"

Parse(line) ==
    IF line = HelloLine THEN [type |-> "hello", version |-> "0.9.0"]
    ELSE IF Len(line) = 1 THEN [type |-> line[1]]
    ELSE IF line[1] = "object" THEN [type |-> "object", object |-> Objects[line[2]]]
    ELSE IF line[1] = "peers" THEN [type |-> "peers", peers |-> {line[2]}]
    ELSE IF line[1] = "mempool" THEN [type |-> "mempool", txids |-> {line[2]}]
    ELSE IF line[1] = "chaintip" THEN [type |-> "chaintip", blockid |-> line[2]]
    ELSE [type |-> line[1], objectid |-> line[2]]

\* net.isIP(host) || isValidDomain(host), for the host of a peer string
ValidPeer(peer) == peer \in {"p1"}

HasNL(buf) == \E i \in 1..Len(buf) : buf[i] = NL
IndexOfNL(buf) == CHOOSE i \in 1..Len(buf) : buf[i] = NL /\ \A j \in 1..(i-1) : buf[j] # NL
Substring(buf, n) == IF Len(buf) <= n THEN buf ELSE SubSeq(buf, 1, n)

----------------------------------------------------------------------------
(* The state.  ss[s] holds the variables of handleConnection(socket s),    *)
(* hd[s][k] the locals of one invocation of its 'data' handler.  The timer *)
(* that timeoutID refers to is "hello", "partial" or "none" (cleared or    *)
(* fired); leaked holds the armed timers no variable refers to any more.   *)
(* sent is what the last step wrote to the sockets.  dials[p] is where the *)
(* call connectToPeer(p) stands: "connecting" (at await socket.connect),   *)
(* "connected" (handleConnection was called) or "failed".                  *)

NoMsg == [type |-> "none"]
IdleH == [pc |-> "idle", msg |-> NoMsg, cont |-> "none", ids |-> {}, utxoSet |-> <<>>,
          height |-> 0, old |-> NoTip, forgotten |-> <<>>, transactionsToApply |-> <<>>,
          newMempoolUTXOs |-> <<>>, newMempoolTXs |-> <<>>]

EmptyStore == [x \in {} |-> NoBlock]
Put(store, key, value) ==
    [x \in DOMAIN store \cup {key} |-> IF x = key THEN value ELSE store[x]]

\* the state a step starts from: nothing written to any socket yet
St == [db |-> db, utxos |-> utxos, utxoPuts |-> utxoPuts, chaintip |-> chaintip, mempoolUTXOs |-> mempoolUTXOs,
       mempoolTXs |-> mempoolTXs, peers |-> peers, sockets |-> sockets, ss |-> ss,
       hd |-> hd, sent |-> {}, dials |-> dials]

Set(st) ==
    /\ db' = st.db
    /\ utxos' = st.utxos
    /\ utxoPuts' = st.utxoPuts
    /\ chaintip' = st.chaintip
    /\ mempoolUTXOs' = st.mempoolUTXOs
    /\ mempoolTXs' = st.mempoolTXs
    /\ peers' = st.peers
    /\ sockets' = st.sockets
    /\ ss' = st.ss
    /\ hd' = st.hd
    /\ sent' = st.sent
    /\ dials' = st.dials

ErrorMsg(name, description) ==
    [type |-> "error", name |-> name, description |-> description]

\* the descriptions the code gives to the errors that are no ProtocolError
TIMED_OUT == "Peer timed out."
NO_HELLO == "The peer sent other validly formatted messages before sending a valid hello message."

\* socket.write on a destroyed socket rejects, which sendMessage only logs
sendMessage(st, s, message) ==
    IF st.ss[s].destroyed THEN st
    ELSE [st EXCEPT !.sent = @ \cup {[to |-> s, msg |-> message]}]

disconnect(st, s) ==
    [st EXCEPT !.ss[s].destroyed = TRUE, !.sockets = @ \ {s}]

ClosingErrors == {"INVALID_FORMAT", "INVALID_HANDSHAKE"}

\* a sendError that disconnects whatever the error code
sendErrorAlwaysCloses(st, s, name, description) ==
    disconnect(sendMessage(st, s, ErrorMsg(name, description)), s)

sendError(st, s, name, description) ==
    LET a == sendMessage(st, s, ErrorMsg(name, description)) IN
    IF name \in ClosingErrors THEN disconnect(a, s) ELSE a

\* a message to every socket of the set sockets
Broadcast(st, message) ==
    [st EXCEPT !.sent = @ \cup {[to |-> r, msg |-> message] : r \in st.sockets}]

requestObject(st, objectid) ==
    Broadcast(st, [type |-> "getobject", objectid |-> objectid])

RECURSIVE RequestAll(_, _)
RequestAll(st, ids) ==
    IF ids = {} THEN st
    ELSE LET id == CHOOSE x \in ids : TRUE IN RequestAll(requestObject(st, id), ids \ {id})

\* timeoutID = addTimeout(socket): the timer timeoutID referred to stays armed
addTimeout(st, s) ==
    [st EXCEPT !.ss[s].leaked = IF st.ss[s].timeoutID = "none" THEN @
                                 ELSE @ \cup {st.ss[s].timeoutID},
               !.ss[s].timeoutID = "partial"]

clearTimeout(st, s) == [st EXCEPT !.ss[s].timeoutID = "none"]

\* the handler returns
EndHandler(st, s, k) == [st EXCEPT !.hd[s][k] = IdleH]

\* the catch block of the 'data' handler
ErrorCodeOf(err) ==
    IF err \in {"SyntaxError", "ZodError"} THEN "INVALID_FORMAT"
    ELSE IF err = "Error" THEN "INTERNAL_ERROR"
    ELSE err

\* a catch block that keeps the object of the failed message
CatchStores(st, s, k, err) ==
    LET message == st.hd[s][k].msg
        kept == IF message.type = "object"
                THEN [st EXCEPT !.db = Put(@, hashObject(message.object), message.object)]
                ELSE st
    IN EndHandler(sendError(kept, s, ErrorCodeOf(err), err), s, k)

Catch(st, s, k, err) == EndHandler(sendError(st, s, ErrorCodeOf(err), err), s, k)

\* an emit that resolves the waiters of the first session only
EmitToFirst(st, objectid) ==
    [st EXCEPT !.hd["s1"] = [k \in Slots |->
        IF st.hd["s1"][k].pc = "ensure_wait" /\ k = 1
        THEN [st.hd["s1"][k] EXCEPT !.ids = @ \ {objectid}]
        ELSE st.hd["s1"][k]]]

\* objectReceivedEmitter.emit(objectid, object): the waiters of objectid resolve
Emit(st, objectid) ==
    [st EXCEPT !.hd = [s \in Sessions |-> [k \in Slots |->
        IF st.hd[s][k].pc = "ensure_wait"
        THEN [st.hd[s][k] EXCEPT !.ids = @ \ {objectid}]
        ELSE st.hd[s][k]]]]

\* ensureObject for every id of ids, at its await db.exists
StartEnsure(st, s, k, message, ids, cont) ==
    [st EXCEPT !.hd[s][k] =
        [IdleH EXCEPT !.pc = "ensure_check", !.msg = message, !.ids = ids, !.cont = cont]]

----------------------------------------------------------------------------
(* validateObject, case 'transaction'.                                     *)

\* the loop over object.inputs: r is [err, total]
RECURSIVE CheckInputs(_, _, _)
CheckInputs(store, r, inputs) ==
    IF inputs = <<>> \/ r.err # "OK" THEN r
    ELSE LET input == Head(inputs)
             txid == input.outpoint.txid
         IN IF ~Has(store, txid) THEN [r EXCEPT !.err = "UNKNOWN_OBJECT"]
            ELSE IF store[txid].type # "transaction"
            THEN [r EXCEPT !.err = "INVALID_TX_OUTPOINT"]
            ELSE IF input.outpoint.index >= Len(store[txid].outputs)
            THEN [r EXCEPT !.err = "INVALID_TX_OUTPOINT"]
            ELSE LET outpoint == store[txid].outputs[input.outpoint.index + 1] IN
                 IF ~validateStringSignature(input.sig, outpoint.pubkey)
                 THEN [r EXCEPT !.err = "INVALID_TX_SIGNATURE"]
                 ELSE CheckInputs(store, [err |-> "OK", total |-> r.total + outpoint.value],
                                  Tail(inputs))

validateTransaction(store, object) ==
    IF "inputs" \in DOMAIN object /\ "height" \in DOMAIN object THEN "INVALID_FORMAT"
    ELSE IF "inputs" \in DOMAIN object
    THEN LET r == CheckInputs(store, [err |-> "OK", total |-> 0], object.inputs) IN
         IF r.err # "OK" THEN r.err
         ELSE IF Cardinality({object.inputs[i].outpoint : i \in 1..Len(object.inputs)})
                   < Len(object.inputs)
         THEN "INVALID_TX_CONSERVATION"
         ELSE IF r.total < SumValues(object.outputs) THEN "INVALID_TX_CONSERVATION"
         ELSE "OK"
    ELSE IF "height" \in DOMAIN object THEN "OK"
    ELSE "INVALID_FORMAT"

----------------------------------------------------------------------------
(* validateObject, case 'block', cut at its awaits.                        *)

\* a start of the block case that takes any block without previd for genesis
BlockStartAnyGenesis(st, s, k, message) ==
    LET object == message.object
        hash == hashObject(object)
    IN IF HashOrd(hash) >= object.T THEN Catch(st, s, k, "INVALID_BLOCK_POW")
       ELSE IF object.created > NOW THEN Catch(st, s, k, "INVALID_BLOCK_TIMESTAMP")
       ELSE IF object.previd = NULL
       THEN StartEnsure(st, s, k, message,
                        {object.txids[i] : i \in 1..Len(object.txids)}, "afterTxs")
       ELSE StartEnsure(st, s, k, message, {object.previd}, "afterPrev")

\* a start of the block case without the proof-of-work test
BlockStartNoPow(st, s, k, message) ==
    LET object == message.object
        hash == hashObject(object)
    IN IF object.created > NOW THEN Catch(st, s, k, "INVALID_BLOCK_TIMESTAMP")
       ELSE IF object.previd = NULL
       THEN IF hash # GENESIS_BLOCK THEN Catch(st, s, k, "INVALID_GENESIS")
            ELSE StartEnsure(st, s, k, message,
                             {object.txids[i] : i \in 1..Len(object.txids)}, "afterTxs")
       ELSE StartEnsure(st, s, k, message, {object.previd}, "afterPrev")

\* up to the first await: proof of work, timestamp, genesis
BlockStart(st, s, k, message) ==
    LET object == message.object
        hash == hashObject(object)
    IN IF HashOrd(hash) >= object.T THEN Catch(st, s, k, "INVALID_BLOCK_POW")
       ELSE IF object.created > NOW THEN Catch(st, s, k, "INVALID_BLOCK_TIMESTAMP")
       ELSE IF object.previd = NULL
       THEN IF hash # GENESIS_BLOCK THEN Catch(st, s, k, "INVALID_GENESIS")
            ELSE StartEnsure(st, s, k, message,
                             {object.txids[i] : i \in 1..Len(object.txids)}, "afterTxs")
       ELSE StartEnsure(st, s, k, message, {object.previd}, "afterPrev")

\* after ensureObject(object.previd)
AfterPrev(st, s, k) ==
    LET message == st.hd[s][k].msg
        object == message.object
        prev == st.db[object.previd]
    IN IF prev.type # "block" THEN Catch(st, s, k, "INVALID_FORMAT")
       ELSE IF prev.created >= object.created THEN Catch(st, s, k, "INVALID_BLOCK_TIMESTAMP")
       ELSE StartEnsure(st, s, k, message,
                        {object.txids[i] : i \in 1..Len(object.txids)}, "afterTxs")

\* a coinbase check that lets the coinbase be spent in its own block
CoinbaseCheckNoSpent(coinbase, txid, utxoSet, transactionFees, height) ==
    IF coinbase.outputs[1].value > transactionFees + BLOCK_REWARD
    THEN "INVALID_BLOCK_COINBASE"
    ELSE IF height # coinbase.height THEN "INVALID_BLOCK_COINBASE"
    ELSE "OK"

\* a coinbase check that puts no limit on the value of the coinbase
CoinbaseCheckNoLimit(coinbase, txid, utxoSet, transactionFees, height) ==
    IF ~hasUTXO(utxoSet, txid, 0) THEN "INVALID_TX_OUTPOINT"
    ELSE IF height # coinbase.height THEN "INVALID_BLOCK_COINBASE"
    ELSE "OK"

\* a coinbase check that does not look at the height
CoinbaseCheckNoHeight(coinbase, txid, utxoSet, transactionFees, height) ==
    IF ~hasUTXO(utxoSet, txid, 0) THEN "INVALID_TX_OUTPOINT"
    ELSE IF coinbase.outputs[1].value > transactionFees + BLOCK_REWARD
    THEN "INVALID_BLOCK_COINBASE"
    ELSE "OK"

\* the checks of validateObject on the coinbase of a block: its output is
\* unspent after the replay, its value within reward and fees, its height
\* that of the block
CoinbaseCheck(coinbase, txid, utxoSet, transactionFees, height) ==
    IF ~hasUTXO(utxoSet, txid, 0) THEN "INVALID_TX_OUTPOINT"
    ELSE IF coinbase.outputs[1].value > transactionFees + BLOCK_REWARD
    THEN "INVALID_BLOCK_COINBASE"
    ELSE IF height # coinbase.height THEN "INVALID_BLOCK_COINBASE"
    ELSE "OK"

\* after Promise.all(object.txids.map(ensureObject)): the checks on the
\* transactions, the replay, utxos.put, blockHeight and the coinbase checks.
\* utxos.put(hash, utxoSet) is called without await: the write is handed to
\* the store here (utxoPuts) and lands in the index in a step of its own.
AfterTxs(st, s, k) ==
    LET object == st.hd[s][k].msg.object
        hash == hashObject(object)
        n == Len(object.txids)
        transactions == [i \in 1..n |-> st.db[object.txids[i]]]
        hasCoinbase == n > 0 /\ "height" \in DOMAIN transactions[1]
    IN IF \E i \in 1..n : transactions[i].type # "transaction"
       THEN Catch(st, s, k, "INVALID_FORMAT")
       ELSE IF \E i \in 2..n : "inputs" \notin DOMAIN transactions[i]
       THEN Catch(st, s, k, "INVALID_BLOCK_COINBASE")
       ELSE IF object.previd # NULL /\ ~Has(st.utxos, object.previd)
       THEN Catch(st, s, k, "Error")
       ELSE
       LET start == IF object.previd # NULL THEN st.utxos[object.previd] ELSE <<>>
           r == Replay([err |-> "OK", utxoSet |-> start, fee |-> 0], transactions)
           put == [st EXCEPT !.utxoPuts = Put(@, hash, r.utxoSet)]
           h == blockHeight(st.db, object, FALSE)
           c == IF hasCoinbase
                THEN CoinbaseCheck(transactions[1], object.txids[1], r.utxoSet, r.fee, h.height)
                ELSE "OK"
       IN IF r.err # "OK" THEN Catch(st, s, k, r.err)
          ELSE IF h.err # "OK" THEN Catch(put, s, k, h.err)
          ELSE IF c # "OK" THEN Catch(put, s, k, c)
          ELSE [put EXCEPT !.hd[s][k] =
                  [IdleH EXCEPT !.pc = "tipCheck", !.msg = st.hd[s][k].msg,
                                !.utxoSet = r.utxoSet, !.height = h.height]]

\* the test that guards the reorganization
IsNewChaintip(tipStore, height) ==
    ~Has(tipStore, CHAINTIP) \/ height > tipStore[CHAINTIP].height

TipCheckStep(st, s, k) ==
    [st EXCEPT !.hd[s][k].pc =
        IF IsNewChaintip(st.chaintip, st.hd[s][k].height) THEN "reorg" ELSE "store"]

\* a reorganization that assigns the mempool before chaintip.put
ReorgStepEarly(st, s, k) ==
    LET h == st.hd[s][k]
        object == h.msg.object
        old_chaintip == IF Has(st.chaintip, CHAINTIP) THEN st.chaintip[CHAINTIP] ELSE NoTip
        new_chaintip == [hash |-> hashObject(object), block |-> object, height |-> h.height]
        f == forgottenTransactions(st.db, old_chaintip, new_chaintip)
        transactionsToApply == f.txids \o st.mempoolTXs
        r == ApplyAll(st.db, [err |-> "OK", utxos |-> h.utxoSet, txs |-> <<>>],
                      transactionsToApply)
    IN IF f.err # "OK" THEN Catch(st, s, k, f.err)
       ELSE IF r.err # "OK" THEN Catch(st, s, k, r.err)
       ELSE [st EXCEPT !.mempoolUTXOs = r.utxos, !.mempoolTXs = r.txs,
                       !.hd[s][k] =
               [h EXCEPT !.pc = "commit", !.old = old_chaintip, !.forgotten = f.txids,
                         !.transactionsToApply = transactionsToApply,
                         !.newMempoolUTXOs = r.utxos, !.newMempoolTXs = r.txs]]

\* old_chaintip, forgottenTransactions, transactionsToApply and the loop of
\* attemptApplyTransaction
ReorgStep(st, s, k) ==
    LET h == st.hd[s][k]
        object == h.msg.object
        old_chaintip == IF Has(st.chaintip, CHAINTIP) THEN st.chaintip[CHAINTIP] ELSE NoTip
        new_chaintip == [hash |-> hashObject(object), block |-> object, height |-> h.height]
        f == forgottenTransactions(st.db, old_chaintip, new_chaintip)
        transactionsToApply == f.txids \o st.mempoolTXs
        r == ApplyAll(st.db, [err |-> "OK", utxos |-> h.utxoSet, txs |-> <<>>],
                      transactionsToApply)
    IN IF f.err # "OK" THEN Catch(st, s, k, f.err)
       ELSE IF r.err # "OK" THEN Catch(st, s, k, r.err)
       ELSE [st EXCEPT !.hd[s][k] =
               [h EXCEPT !.pc = "commit", !.old = old_chaintip, !.forgotten = f.txids,
                         !.transactionsToApply = transactionsToApply,
                         !.newMempoolUTXOs = r.utxos, !.newMempoolTXs = r.txs]]

\* await chaintip.put(CHAINTIP, new_chaintip).then(...): like every store
\* operation the put takes effect in the step in which its promise resolves,
\* and its callback runs in that same step; validateObject then returns
CommitStep(st, s, k) ==
    LET h == st.hd[s][k]
        object == h.msg.object
        new_chaintip == [hash |-> hashObject(object), block |-> object, height |-> h.height]
    IN [st EXCEPT !.chaintip = Put(@, CHAINTIP, new_chaintip),
                  !.mempoolUTXOs = h.newMempoolUTXOs,
                  !.mempoolTXs = h.newMempoolTXs,
                  !.hd[s][k] = [IdleH EXCEPT !.pc = "store", !.msg = h.msg]]

----------------------------------------------------------------------------
(* The 'data' handler of handleConnection.  Run is the while loop from its *)
(* test down to the next await (or the handler's end), SwitchSync the part *)
(* of a case before its first await, AfterAwait the rest of the case.      *)

\* the cases that reach the next line without an await
IsSync(message) == message.type \in {"hello", "peers", "error"}
IsBlockObject(message) == message.type = "object" /\ message.object.type = "block"
IsCoinbaseObject(message) ==
    /\ message.type = "object" /\ message.object.type = "transaction"
    /\ "inputs" \notin DOMAIN message.object

Suspend(st, s, k, message, pc) ==
    [st EXCEPT !.hd[s][k] = [IdleH EXCEPT !.pc = pc, !.msg = message]]

\* case 'peers': a valid peer that is new is added to peers and, if there are
\* fewer sockets than DESIRED_CONNECTIONS, dialled with connectToPeer
AddPeers(st, message) ==
    LET new == {p \in message.peers : ValidPeer(p) /\ p \notin st.peers}
        dialled == IF Cardinality(st.sockets) < DESIRED_CONNECTIONS THEN new ELSE {}
    IN [st EXCEPT !.peers = @ \cup new,
                  !.dials = [p \in DOMAIN @ \cup dialled |->
                                IF p \in dialled THEN "connecting" ELSE @[p]]]

RECURSIVE Run(_, _, _)
RECURSIVE SwitchSync(_, _, _, _)

SwitchSync(st, s, k, message) ==
    IF message.type = "hello" THEN Run([st EXCEPT !.ss[s].saidHello = TRUE], s, k)
    ELSE IF message.type = "peers" THEN Run(AddPeers(st, message), s, k)
    ELSE IF message.type = "error" THEN Run(st, s, k)
    ELSE IF IsBlockObject(message) THEN BlockStart(st, s, k, message)
    ELSE IF IsCoinbaseObject(message)
    THEN IF validateTransaction(st.db, message.object) # "OK"
         THEN Catch(st, s, k, validateTransaction(st.db, message.object))
         ELSE Suspend(st, s, k, message, "store")
    ELSE Suspend(st, s, k, message, "dispatch")

Run(st, s, k) ==
    LET buffer == st.ss[s].buffer IN
    IF ~HasNL(buffer)
    THEN EndHandler(IF Len(buffer) > 0 THEN addTimeout(st, s) ELSE st, s, k)
    ELSE LET eol == IndexOfNL(buffer)
             json == SubSeq(buffer, 1, eol - 1)
             st1 == [st EXCEPT !.ss[s].buffer = SubSeq(buffer, eol + 1, Len(buffer))]
         IN IF ~Parses(json) THEN Catch(st1, s, k, "SyntaxError")
            ELSE IF ~st.ss[s].saidHello /\ Parse(json).type # "hello"
            THEN Suspend(sendError(st1, s, "INVALID_HANDSHAKE", NO_HELLO), s, k, Parse(json), "dispatch")
            ELSE SwitchSync(st1, s, k, Parse(json))

\* the rest of a case whose first statement awaits
AfterAwait(st, s, k, message) ==
    IF message.type = "getpeers"
    THEN Run(sendMessage(st, s, [type |-> "peers", peers |-> st.peers]), s, k)
    ELSE IF message.type = "getobject"
    THEN IF Has(st.db, message.objectid)
         THEN Run(sendMessage(st, s, [type |-> "object",
                                       object |-> st.db[message.objectid]]), s, k)
         ELSE Run(sendError(st, s, "UNKNOWN_OBJECT", "not found"), s, k)
    ELSE IF message.type = "ihaveobject"
    THEN IF ~Has(st.db, message.objectid)
         THEN Run(sendMessage(st, s, [type |-> "getobject",
                                       objectid |-> message.objectid]), s, k)
         ELSE Run(st, s, k)
    ELSE IF message.type = "getchaintip"
    THEN IF Has(st.chaintip, CHAINTIP)
         THEN Run(sendMessage(st, s, [type |-> "chaintip",
                                       blockid |-> st.chaintip[CHAINTIP].hash]), s, k)
         ELSE Run(st, s, k)
    ELSE IF message.type = "getmempool"
    THEN Run(sendMessage(st, s, [type |-> "mempool", txids |-> st.mempoolTXs]), s, k)
    ELSE IF message.type = "mempool"
    THEN Run(RequestAll(st, message.txids), s, k)
    ELSE IF message.type = "chaintip"
    THEN StartEnsure(st, s, k, message, {message.blockid}, "afterChaintip")
    ELSE \* an object that is a regular transaction: validateObject
         IF validateTransaction(st.db, message.object) # "OK"
         THEN Catch(st, s, k, validateTransaction(st.db, message.object))
         ELSE Suspend(st, s, k, message, "store")

\* resumed at the switch (after the await of the handshake error) or at the
\* first await of a case
DispatchStep(st, s, k) ==
    LET message == st.hd[s][k].msg IN
    IF IsSync(message) \/ IsBlockObject(message) \/ IsCoinbaseObject(message)
    THEN SwitchSync(st, s, k, message)
    ELSE AfterAwait(st, s, k, message)

\* a store step that keeps nothing but the object it puts
StoreStepFresh(st, s, k) ==
    LET object == st.hd[s][k].msg.object
        objectid == hashObject(object)
    IN Run(Broadcast(Emit([st EXCEPT !.db = Put(EmptyStore, objectid, object)], objectid),
                     [type |-> "ihaveobject", objectid |-> objectid]), s, k)

\* a store step that puts the object and emits nothing
StoreStepNoEmit(st, s, k) ==
    LET object == st.hd[s][k].msg.object
        objectid == hashObject(object)
        stored == IF Has(st.db, objectid) THEN st
                  ELSE [st EXCEPT !.db = Put(@, objectid, object)]
        told == Broadcast(stored, [type |-> "ihaveobject", objectid |-> objectid])
    IN IF object.type = "transaction" /\ "inputs" \in DOMAIN object
       THEN LET r == applyTransaction(object, st.mempoolUTXOs, st.mempoolTXs) IN
            IF r.err # "OK" THEN Catch(told, s, k, r.err)
            ELSE Run([told EXCEPT !.mempoolUTXOs = r.utxos, !.mempoolTXs = r.txs], s, k)
       ELSE Run(told, s, k)

\* case 'object' after validateObject: db.put, emit, ihaveobject, mempool
StoreStep(st, s, k) ==
    LET object == st.hd[s][k].msg.object
        objectid == hashObject(object)
        stored == IF Has(st.db, objectid) THEN st
                  ELSE [st EXCEPT !.db = Put(@, objectid, object)]
        told == Broadcast(Emit(stored, objectid),
                          [type |-> "ihaveobject", objectid |-> objectid])
    IN IF object.type = "transaction" /\ "inputs" \in DOMAIN object
       THEN LET r == applyTransaction(object, st.mempoolUTXOs, st.mempoolTXs) IN
            IF r.err # "OK" THEN Catch(told, s, k, r.err)
            ELSE Run([told EXCEPT !.mempoolUTXOs = r.utxos, !.mempoolTXs = r.txs], s, k)
       ELSE Run(told, s, k)

\* what follows a completed ensureObject
Cont(st, s, k) ==
    IF st.hd[s][k].cont = "afterPrev" THEN AfterPrev(st, s, k)
    ELSE IF st.hd[s][k].cont = "afterTxs" THEN AfterTxs(st, s, k)
    ELSE Run(st, s, k)

\* an ensureObject that sends no getobject for a missing id
EnsureCheckSilent(st, s, k) ==
    LET missing == {id \in st.hd[s][k].ids : ~Has(st.db, id)} IN
    IF missing = {} THEN Cont(st, s, k)
    ELSE [st EXCEPT !.hd[s][k].pc = "ensure_wait", !.hd[s][k].ids = missing]

\* ensureObject resumed after await db.exists: an id that is stored is
\* returned by db.get; for a missing id requestObject is called and the
\* once-listener registered before the handler suspends again
EnsureCheckStep(st, s, k) ==
    LET missing == {id \in st.hd[s][k].ids : ~Has(st.db, id)} IN
    IF missing = {} THEN Cont(st, s, k)
    ELSE [RequestAll(st, missing) EXCEPT !.hd[s][k].pc = "ensure_wait",
                                         !.hd[s][k].ids = missing]

----------------------------------------------------------------------------
(* The steps.                                                              *)

\* socket.stream.on('data'): the chunk is appended and the loop entered
DataStep(st, s, k, chunk) ==
    LET buffer == Substring(st.ss[s].buffer \o chunk, MAX_MESSAGE_LENGTH)
        st1 == [st EXCEPT !.ss[s].buffer = buffer]
    IN Run(IF HasNL(buffer) THEN clearTimeout(st1, s) ELSE st1, s, k)

InFlight(s) == {k \in Slots : hd[s][k].pc # "idle"}

Data(s, chunk) ==
    \E k \in Slots :
        /\ ~ss[s].destroyed
        /\ hd[s][k].pc = "idle"
        /\ \A j \in 1..(k-1) : hd[s][j].pc # "idle"
        /\ Len(ss[s].buffer) + Len(chunk) <= MaxBuffer
        /\ Set(DataStep(St, s, k, chunk))

Dispatch(s, k) == hd[s][k].pc = "dispatch" /\ Set(DispatchStep(St, s, k))

EnsureCheck(s, k) == hd[s][k].pc = "ensure_check" /\ Set(EnsureCheckStep(St, s, k))

\* every awaited object was delivered
EnsureDone(s, k) ==
    /\ hd[s][k].pc = "ensure_wait" /\ hd[s][k].ids = {}
    /\ Set(Cont(St, s, k))

\* a delay that never resolves
EnsureNeverTimesOut(s, k) ==
    /\ hd[s][k].pc = "ensure_wait" /\ hd[s][k].ids # {}
    /\ FALSE
    /\ UNCHANGED vars

\* delay(FIND_OBJECT_TIMEOUT) wins the race for one of the awaited objects
EnsureTimeout(s, k) ==
    /\ hd[s][k].pc = "ensure_wait" /\ hd[s][k].ids # {}
    /\ Set(Catch(St, s, k, "UNFINDABLE_OBJECT"))

TipCheck(s, k) == hd[s][k].pc = "tipCheck" /\ Set(TipCheckStep(St, s, k))

Reorg(s, k) == hd[s][k].pc = "reorg" /\ Set(ReorgStep(St, s, k))

Commit(s, k) == hd[s][k].pc = "commit" /\ Set(CommitStep(St, s, k))

Store(s, k) == hd[s][k].pc = "store" /\ Set(StoreStep(St, s, k))

\* a timer of addTimeout fires: sendError(socket, 'INVALID_FORMAT', ...)
TimerFire(s, timer) ==
    /\ ~ss[s].destroyed
    /\ timer \in ({ss[s].timeoutID} \ {"none"}) \cup ss[s].leaked
    /\ LET st1 == IF ss[s].timeoutID = timer
                  THEN [St EXCEPT !.ss[s].timeoutID = "none"]
                  ELSE [St EXCEPT !.ss[s].leaked = @ \ {timer}]
       IN Set(sendError(st1, s, "INVALID_FORMAT", TIMED_OUT))

\* a write handed to the UTXO index by utxos.put completes
UtxoPut(key) ==
    /\ key \in DOMAIN utxoPuts
    /\ Set([St EXCEPT !.utxos = Put(@, key, utxoPuts[key]),
                      !.utxoPuts = [x \in DOMAIN utxoPuts \ {key} |-> utxoPuts[x]]])

\* socket.stream.on('end')
PeerEnd(s) == ~ss[s].destroyed /\ Set(disconnect(St, s))

Resume(s, k) ==
    \/ Dispatch(s, k)
    \/ EnsureCheck(s, k)
    \/ EnsureDone(s, k)
    \/ EnsureTimeout(s, k)
    \/ TipCheck(s, k)
    \/ Reorg(s, k)
    \/ Commit(s, k)
    \/ Store(s, k)

----------------------------------------------------------------------------
(* Spec: two sockets past the handshake; each peer sends one object        *)
(* message per chunk and waits for the handler to return before the next.  *)

BootstrapPeers == {"b1", "b2", "b3"}

InitStores ==
    /\ db = EmptyStore
    /\ utxos = EmptyStore
    /\ utxoPuts = EmptyStore
    /\ chaintip = EmptyStore
    /\ mempoolUTXOs = <<>>
    /\ mempoolTXs = <<>>
    /\ peers = BootstrapPeers
    /\ sockets = Sessions
    /\ hd = [s \in Sessions |-> [k \in Slots |-> IdleH]]
    /\ sent = {}
    /\ dials = [p \in BootstrapPeers |-> "failed"]

Init ==
    /\ InitStores
    /\ ss = [s \in Sessions |-> [destroyed |-> FALSE, saidHello |-> TRUE, buffer |-> <<>>,
                                 timeoutID |-> "none", leaked |-> {}]]

\* what the peer of a session has to offer: s2 holds the genesis block and a
\* competing block on it, s1 everything else
Offers(s) == IF s = "s1" THEN {"G", "A", "B", "X", "cA", "t1"} ELSE {"G", "A2"}

Deliver(s, id) == InFlight(s) = {} /\ Data(s, <<"object", id, NL>>)

Next ==
    \/ \E s \in Sessions : \E id \in Offers(s) : Deliver(s, id)
    \/ \E s \in Sessions, k \in Slots : Resume(s, k)
    \/ \E key \in ObjIds : UtxoPut(key)

Spec == Init /\ [][Next]_vars

----------------------------------------------------------------------------
(* What the claims are stated with.                                        *)

Handlers == Sessions \X Slots

HasTip == Has(chaintip, CHAINTIP)
Tip == chaintip[CHAINTIP]

IsRegular(txid) == "inputs" \in DOMAIN Objects[txid]

\* the handler of <<s, k>> takes the step from pc p to pc q
Moves(s, k, p, q) == hd[s][k].pc = p /\ hd'[s][k].pc = q

\* the block ids from genesis to id, oldest first
RECURSIVE ChainOf(_)
ChainOf(id) == IF id = NULL THEN <<>> ELSE Append(ChainOf(Objects[id].previd), id)

RECURSIVE TxidsOf(_)
TxidsOf(blocks) ==
    IF blocks = <<>> THEN <<>> ELSE Objects[Head(blocks)].txids \o TxidsOf(Tail(blocks))

\* the transactions of the blocks on OLD's chain that are not on NEW's chain
ForgottenOf(old, newHash) ==
    LET onNew == {ChainOf(newHash)[i] : i \in 1..Len(ChainOf(newHash))}
        off(b) == b \notin onNew
    IN IF old = NoTip THEN <<>> ELSE TxidsOf(SelectSeq(ChainOf(old.hash), off))

\* txids applied in order on top of a UTXO set; every one must apply
RECURSIVE ReplayStrict(_, _)
ReplayStrict(r, txids) ==
    IF txids = <<>> \/ r.err # "OK" THEN r
    ELSE ReplayStrict(applyTransaction(Objects[Head(txids)], r.utxos, r.txs), Tail(txids))

\* the subsequence of txids that apply, one after another, from a UTXO set
RECURSIVE Applicable(_, _)
Applicable(utxoSet, txids) ==
    IF txids = <<>> THEN <<>>
    ELSE LET r == updateUTXO(utxoSet, Objects[Head(txids)]) IN
         IF r.err = "OK" THEN <<Head(txids)>> \o Applicable(r.utxoSet, Tail(txids))
         ELSE Applicable(utxoSet, Tail(txids))

----------------------------------------------------------------------------
(* C1..C6: chain selection and the mempool.                                *)

\* C1: over any interleaving of block deliveries, the height recorded in the
\* chaintip store never decreases.
C1_HeightNeverDecreases ==
    [][(HasTip /\ Has(chaintip', CHAINTIP)) =>
          chaintip'[CHAINTIP].height >= Tip.height]_vars

\* C2: after every mempool-affecting event (an accepted non-coinbase
\* transaction, or a committed reorganization), and so in every state, the
\* UTXO index holds a set for the chaintip block, and replaying mempoolTXs in
\* order with applyTransaction on top of it (on the empty set while there is
\* no chaintip) yields exactly mempoolUTXOs.
C2_MempoolReplays ==
    /\ HasTip => Has(utxos, Tip.hash)
    /\ LET base == IF HasTip THEN utxos[Tip.hash] ELSE <<>>
           r == ReplayStrict([err |-> "OK", utxos |-> base, txs |-> <<>>], mempoolTXs)
       IN r.err = "OK" /\ r.utxos = mempoolUTXOs /\ r.txs = mempoolTXs

\* C3: mempoolTXs holds only ids of regular (non-coinbase) transactions.
C3_NoCoinbaseInMempool ==
    \A i \in 1..Len(mempoolTXs) : IsRegular(mempoolTXs[i])

\* C4: the list forgotten computed by a reorganization from OLD to NEW is the
\* transaction ids of the blocks on OLD's chain that are not on NEW's chain,
\* oldest block first.
C4_ForgottenIsOldChain ==
    \A h \in Handlers :
        hd[h[1]][h[2]].pc = "commit" =>
            hd[h[1]][h[2]].forgotten =
                ForgottenOf(hd[h[1]][h[2]].old, hashObject(hd[h[1]][h[2]].msg.object))

\* C5: a committed reorganization to NEW leaves in mempoolTXs exactly the
\* transactions of (forgotten ++ old mempoolTXs) that apply one after another
\* from NEW's UTXO set, in that order, and sends no error for the ones dropped.
C5_ReorgMempool ==
    [][\A h \in Handlers :
          Moves(h[1], h[2], "commit", "store") =>
             LET new == hashObject(hd[h[1]][h[2]].msg.object) IN
             /\ mempoolTXs' = Applicable(hd[h[1]][h[2]].utxoSet,
                                         ForgottenOf(hd[h[1]][h[2]].old, new) \o mempoolTXs)
             /\ \A m \in sent' : m.msg.type # "error"]_vars

\* C6: a block whose validation fails leaves no trace: the step in which its
\* validation throws writes nothing to the chaintip store or the object
\* store, and no entry for the block is written, or handed to be written,
\* to the UTXO index.
C6_FailedBlockLeavesNoTrace ==
    [][\A h \in Handlers :
          ( /\ IsBlockObject(hd[h[1]][h[2]].msg)
            /\ hd[h[1]][h[2]].pc \in {"dispatch", "ensure_check", "ensure_wait", "reorg"}
            /\ hd'[h[1]][h[2]].pc = "idle" )
          => /\ chaintip' = chaintip /\ db' = db /\ utxos' = utxos
             /\ DOMAIN utxoPuts' \subseteq DOMAIN utxoPuts \cup DOMAIN utxos]_vars

----------------------------------------------------------------------------
(* SpecWire: socket s1 was just accepted by handleConnection (hello timer   *)
(* armed, nothing received yet) and its peer sends bytes in chunks cut     *)
(* anywhere, without waiting for the node; s2 is a peer that completed its *)
(* handshake and can deliver the genesis block. Either peer may end its    *)
(* connection.                                                             *)

InitWire ==
    /\ InitStores
    /\ ss = [s \in Sessions |->
                IF s = "s1"
                THEN [destroyed |-> FALSE, saidHello |-> FALSE, buffer |-> <<>>,
                      timeoutID |-> "hello", leaked |-> {}]
                ELSE [destroyed |-> FALSE, saidHello |-> TRUE, buffer |-> <<>>,
                      timeoutID |-> "none", leaked |-> {}]]

WireChunks(s) ==
    IF s = "s1"
    THEN { <<"hel">>, <<"lo", NL>>, <<"hel", "lo", NL>>,
           <<"getpeers", NL>>, <<"peers", "p1", NL>>,
           <<"object", "G", NL>>, <<"chaintip", "G", NL>>,
           <<"junk", NL>> }
    ELSE { <<"object", "G", NL>> }

\* the peer of s2 waits for the node before it sends again
Receive(s, chunk) == (s = "s1" \/ InFlight(s) = {}) /\ Data(s, chunk)

NextWire ==
    \/ \E s \in Sessions : \E chunk \in WireChunks(s) : Receive(s, chunk)
    \/ \E s \in Sessions, k \in Slots : Resume(s, k)
    \/ \E s \in Sessions, timer \in {"hello", "partial"} : TimerFire(s, timer)
    \/ \E s \in Sessions : PeerEnd(s)
    \/ \E key \in ObjIds : UtxoPut(key)

SpecWire == InitWire /\ [][NextWire]_vars

----------------------------------------------------------------------------
(* C7..C10: the session.                                                   *)

ErrorsTo(s, msgs) == {m.msg.name : m \in {n \in msgs : n.to = s /\ n.msg.type = "error"}}

\* C7: while a session is still awaiting hello, a valid message other than
\* hello is not dispatched: no step of the session's handlers sends it
\* anything but the error, or changes the object store, the UTXO index, the
\* chaintip store, the mempool or the peer registry.
C7_NoDispatchBeforeHello ==
    [][\A s \in Sessions :
          (~ss[s].saidHello /\ ~ss'[s].saidHello /\ hd'[s] # hd[s]) =>
             /\ db' = db /\ utxos' = utxos /\ chaintip' = chaintip
             /\ mempoolUTXOs' = mempoolUTXOs /\ mempoolTXs' = mempoolTXs
             /\ peers' = peers
             /\ \A m \in sent' : m.to = s => m.msg.type = "error"]_vars

\* C8: once a session has received a valid hello, no timeout closes it while
\* no partial line is pending.
C8_NoTimeoutOnIdleActive ==
    [][\A s \in Sessions :
          (ss[s].saidHello /\ ss[s].buffer = <<>>) =>
             [to |-> s, msg |-> ErrorMsg("INVALID_FORMAT", TIMED_OUT)] \notin sent']_vars

\* C9: the node closes a session only in a step in which it emits
\* INVALID_FORMAT or INVALID_HANDSHAKE to it (the other way a session closes
\* is its peer ending the connection, a step that sends nothing); after any
\* other error code the session is open and in the socket set.
C9_OnlyFormatAndHandshakeClose ==
    [][\A s \in Sessions :
          /\ (~ss[s].destroyed /\ ss'[s].destroyed) =>
                \/ ErrorsTo(s, sent') \cap {"INVALID_FORMAT", "INVALID_HANDSHAKE"} # {}
                \/ sent' = {} /\ hd' = hd
          /\ ~ss'[s].destroyed => s \in sockets']_vars

\* C9 witness: a session that was just sent an error of another code, open
\* and in the socket set.
C9_Witness ==
    \E s \in Sessions :
        /\ ErrorsTo(s, sent) # {}
        /\ ErrorsTo(s, sent) \cap {"INVALID_FORMAT", "INVALID_HANDSHAKE"} = {}
        /\ ~ss[s].destroyed /\ s \in sockets

\* C10: within one session the handling of a message completes before the
\* handling of any later message begins: at most one handler of a session is
\* under way.
C10_OneMessageAtATime ==
    \A s \in Sessions : Cardinality(InFlight(s)) <= 1

----------------------------------------------------------------------------
(* C11..C14: ensureObject.                                                 *)

GetObject(id) == [type |-> "getobject", objectid |-> id]

\* the ids a block handler has ensured when it is past the ensureObject calls
\* its continuation cont follows
Ensured(h) ==
    IF ~IsBlockObject(h.msg) THEN {}
    ELSE IF h.cont = "afterPrev" THEN {h.msg.object.previd}
    ELSE IF h.cont = "afterTxs"
    THEN {h.msg.object.txids[i] : i \in 1..Len(h.msg.object.txids)}
    ELSE {}

\* C11: ensureObject(id) for a stored id sends no getobject and goes on with
\* the stored object; for a missing id it sends getobject{id} to every socket
\* of the socket set and waits, and the wait ends either with every awaited
\* object delivered and stored, or with UNFINDABLE_OBJECT raised (the handler
\* ends and the error goes to its session).
C11_Ensure ==
    [][\A h \in Handlers :
          LET s == h[1]
              a == hd[h[1]][h[2]]
              b == hd'[h[1]][h[2]]
              missing == {id \in a.ids : ~Has(db, id)}
          IN /\ (a.pc = "ensure_check" /\ b # a) =>
                   /\ \A id \in a.ids \ missing : \A m \in sent' : m.msg # GetObject(id)
                   /\ \A id \in missing : \A r \in sockets :
                         [to |-> r, msg |-> GetObject(id)] \in sent'
                   /\ missing # {} => (b.pc = "ensure_wait" /\ b.ids = missing)
                   /\ missing = {} => b.pc # "ensure_wait"
             /\ (a.pc = "ensure_wait" /\ b.pc # "ensure_wait") =>
                   \/ a.ids = {} /\ \A id \in Ensured(a) : Has(db, id)
                   \/ /\ a.ids # {} /\ b.pc = "idle"
                      /\ ss[s].destroyed \/ "UNFINDABLE_OBJECT" \in ErrorsTo(s, sent')]_vars

\* C11 witness: a handler that asked for an object and to which the object
\* was delivered while it waited.
C11_Witness ==
    \E h \in Handlers : hd[h[1]][h[2]].pc = "ensure_wait" /\ hd[h[1]][h[2]].ids = {}

\* C12: while an ensureObject(id) is pending, no further getobject{id} is
\* broadcast.
C12_NoSecondGetObject ==
    [][\A id \in ObjIds :
          (\E h \in Handlers : hd[h[1]][h[2]].pc = "ensure_wait" /\ id \in hd[h[1]][h[2]].ids)
          => \A m \in sent' : m.msg # GetObject(id)]_vars

----------------------------------------------------------------------------
(* SpecLive: the handlers keep taking their steps (the store answers, the  *)
(* delay of ensureObject elapses); the peers deliver what they like, or    *)
(* nothing.                                                                *)

OffersLive(s) == IF s = "s1" THEN {"A", "t1"} ELSE {"G"}

NextLive ==
    \/ \E s \in Sessions : \E id \in OffersLive(s) : Deliver(s, id)
    \/ \E s \in Sessions, k \in Slots : Resume(s, k)
    \/ \E key \in ObjIds : UtxoPut(key)

SpecLive ==
    /\ Init /\ [][NextLive]_vars
    /\ \A s \in Sessions, k \in Slots : WF_vars(Resume(s, k))
    /\ \A key \in ObjIds : WF_vars(UtxoPut(key))

\* C14: every ensureObject eventually completes, and so does every handler:
\* a handler that is under way eventually ends, with the object taken in or
\* with an error.
C14_HandlersFinish ==
    \A h \in Handlers : (hd[h[1]][h[2]].pc # "idle") ~> (hd[h[1]][h[2]].pc = "idle")

\* C14 witness: an ensureObject that waits for an object no handler is
\* taking in.
C14_Witness ==
    \E h \in Handlers :
        /\ hd[h[1]][h[2]].pc = "ensure_wait" /\ hd[h[1]][h[2]].ids # {}
        /\ \A g \in Handlers \ {h} : hd[g[1]][g[2]].pc = "idle"

----------------------------------------------------------------------------
(* C15..C20: the intake of objects, the mempool and the stores.            *)

IHaveObject(id) == [type |-> "ihaveobject", objectid |-> id]

IsRegularObject(message) ==
    /\ message.type = "object" /\ message.object.type = "transaction"
    /\ "inputs" \in DOMAIN message.object

\* C15: an object is put in the store, the waiters of its id are resolved and
\* ihaveobject is sent only in the step that follows the successful
\* validation of that object (the handler is at "store"), and that step does
\* all three; so a handler whose validation fails stores nothing, resolves
\* no waiter and sends no ihaveobject.
C15_StoreAfterValidation ==
    [][\A id \in ObjIds :
          LET stored == ~Has(db, id) /\ Has(db', id)
              told == \E m \in sent' : m.msg = IHaveObject(id)
              fired == \E g \in Handlers :
                          /\ hd[g[1]][g[2]].pc = "ensure_wait" /\ id \in hd[g[1]][g[2]].ids
                          /\ hd'[g[1]][g[2]].pc = "ensure_wait" /\ id \notin hd'[g[1]][g[2]].ids
          IN (stored \/ told \/ fired) =>
                \E h \in Handlers :
                    /\ hd[h[1]][h[2]].pc = "store" /\ hd'[h[1]][h[2]] # hd[h[1]][h[2]]
                    /\ hashObject(hd[h[1]][h[2]].msg.object) = id
                    /\ Has(db', id)
                    /\ \A r \in sockets : [to |-> r, msg |-> IHaveObject(id)] \in sent'
                    /\ \A g \in Handlers :
                          hd'[g[1]][g[2]].pc = "ensure_wait" => id \notin hd'[g[1]][g[2]].ids]_vars

\* C15 witness: the validation of block X has failed after that of A
\* succeeded: A is stored, X is not.
C15_Witness ==
    /\ Has(db, "A") /\ ~Has(db, "X")
    /\ "INVALID_BLOCK_COINBASE" \in ErrorsTo("s1", sent)

\* C16: an id that is in the object store stays, with its value; and the
\* store step of an object that is already stored leaves the store as it is.
C16_WriteOnce ==
    [][/\ \A id \in DOMAIN db : Has(db', id) /\ db'[id] = db[id]
       /\ \A h \in Handlers :
             ( /\ hd[h[1]][h[2]].pc = "store" /\ hd'[h[1]][h[2]] # hd[h[1]][h[2]]
               /\ Has(db, hashObject(hd[h[1]][h[2]].msg.object)) )
             => db' = db]_vars

\* C16 witness: an object delivered again (here on both sessions at once) is
\* about to be stored while the store holds it and other objects.
C16_Witness ==
    \E h \in Handlers :
        /\ hd[h[1]][h[2]].pc = "store"
        /\ Has(db, hashObject(hd[h[1]][h[2]].msg.object))
        /\ Cardinality(DOMAIN db) > 1

\* C17: the store step of a regular transaction that applyTransaction refuses
\* sends INVALID_TX_OUTPOINT to the session of the handler and leaves
\* mempoolUTXOs and mempoolTXs as they are; a reorganization step sends
\* INVALID_TX_OUTPOINT to no session, whatever the replay drops.
C17_MempoolRefusal ==
    [][\A h \in Handlers :
          LET a == hd[h[1]][h[2]]
              b == hd'[h[1]][h[2]]
          IN /\ ( /\ a.pc = "store" /\ b # a /\ IsRegularObject(a.msg)
                  /\ applyTransaction(a.msg.object, mempoolUTXOs, mempoolTXs).err # "OK" )
                => /\ "INVALID_TX_OUTPOINT" \in ErrorsTo(h[1], sent')
                   /\ mempoolUTXOs' = mempoolUTXOs /\ mempoolTXs' = mempoolTXs
             /\ (a.pc = "reorg" /\ b # a)
                => \A t \in Sessions : "INVALID_TX_OUTPOINT" \notin ErrorsTo(t, sent')]_vars

\* C17 witness: a reorganization has dropped a transaction of the mempool
\* in its replay.
C17_Witness ==
    \E h \in Handlers :
        /\ hd[h[1]][h[2]].pc = "commit"
        /\ Len(hd[h[1]][h[2]].newMempoolTXs) < Len(hd[h[1]][h[2]].transactionsToApply)

\* the other case of C17: a stored regular transaction that applyTransaction
\* refuses is at its store step
C17_DirectRefusal ==
    \E h \in Handlers :
        /\ hd[h[1]][h[2]].pc = "store" /\ IsRegularObject(hd[h[1]][h[2]].msg)
        /\ applyTransaction(hd[h[1]][h[2]].msg.object, mempoolUTXOs, mempoolTXs).err # "OK"

\* C18: with the coinbase cA stored, no block spending it and an empty
\* mempool, the store step of t1 (which spends output 0 of cA) puts t1 in
\* mempoolTXs and sends no error.
C18_SpendDeliveredCoinbase ==
    [][\A h \in Handlers :
          ( /\ hd[h[1]][h[2]].pc = "store" /\ hd'[h[1]][h[2]] # hd[h[1]][h[2]]
            /\ hd[h[1]][h[2]].msg.object = Objects["t1"]
            /\ Has(db, "cA") /\ ~Has(db, "B") /\ mempoolTXs = <<>> )
          => /\ mempoolTXs' = <<"t1">>
             /\ ErrorsTo(h[1], sent') = {}]_vars

\* C19: the commit of a block whose height does not exceed that of the
\* chaintip leaves the chaintip store, mempoolTXs and mempoolUTXOs unchanged.
C19_IncumbentKept ==
    [][\A h \in Handlers :
          ( /\ hd[h[1]][h[2]].pc \in {"reorg", "commit"} /\ hd'[h[1]][h[2]] # hd[h[1]][h[2]]
            /\ HasTip /\ hd[h[1]][h[2]].height <= Tip.height )
          => /\ chaintip' = chaintip
             /\ mempoolTXs' = mempoolTXs /\ mempoolUTXOs' = mempoolUTXOs]_vars

\* C20: the UTXO index holds a set for the block the chaintip store names.
C20_UtxoBeforeChaintip == HasTip => Has(utxos, Tip.hash)

----------------------------------------------------------------------------
(* SpecBlocks: one peer delivers objects one after another on s1, among    *)
(* them the blocks that fail a check of validateObject.                    *)

\* writes of UTXO sets that may be pending when a further object is delivered
MaxPending == 1

OffersBlocks == ObjIds \ {"A2", "B", "t0", "t3", "E"}

\* the peer sends an object the node has not stored, once the handler of the
\* previous one has returned
DeliverOne(id) ==
    /\ \A s \in Sessions : InFlight(s) = {}
    /\ ~Has(db, id)
    /\ Cardinality(DOMAIN utxoPuts) <= MaxPending
    /\ Data("s1", <<"object", id, NL>>)

\* nothing is delivered while a handler waits in ensureObject: the wait ends
\* by its delay
NextBlocks ==
    \/ \E id \in OffersBlocks : DeliverOne(id)
    \/ \E k \in Slots :
          \/ Dispatch("s1", k)
          \/ EnsureCheck("s1", k)
          \/ EnsureTimeout("s1", k)
          \/ TipCheck("s1", k)
          \/ Reorg("s1", k)
          \/ Commit("s1", k)
          \/ Store("s1", k)
    \/ \E key \in ObjIds : UtxoPut(key)

SpecBlocks == Init /\ [][NextBlocks]_vars

----------------------------------------------------------------------------
(* C21..C27: the validation of blocks.                                     *)

\* the transactions of a block, as the objects of its txids
TxsOf(block) == [i \in 1..Len(block.txids) |-> Objects[block.txids[i]]]

IsCoinbaseTx(tx) == "height" \in DOMAIN tx

HasCoinbase(block) == Len(block.txids) > 0 /\ IsCoinbaseTx(TxsOf(block)[1])

\* the outpoints the regular transaction tx spends
OutpointsOf(tx) == {tx.inputs[i].outpoint : i \in 1..Len(tx.inputs)}

\* two regular transactions of the block spend the same outpoint
DoubleSpends(block) ==
    \E i, j \in 1..Len(block.txids) :
        /\ i < j
        /\ ~IsCoinbaseTx(TxsOf(block)[i]) /\ ~IsCoinbaseTx(TxsOf(block)[j])
        /\ OutpointsOf(TxsOf(block)[i]) \cap OutpointsOf(TxsOf(block)[j]) # {}

\* a transaction of the block spends output 0 of the block's coinbase
SpendsOwnCoinbase(block) ==
    /\ HasCoinbase(block)
    /\ \E i \in 2..Len(block.txids) :
          /\ ~IsCoinbaseTx(TxsOf(block)[i])
          /\ [txid |-> block.txids[1], index |-> 0] \in OutpointsOf(TxsOf(block)[i])

\* what the inputs of a regular transaction are worth, less its outputs
RECURSIVE InputValues(_)
InputValues(inputs) ==
    IF inputs = <<>> THEN 0
    ELSE Objects[Head(inputs).outpoint.txid].outputs[Head(inputs).outpoint.index + 1].value
         + InputValues(Tail(inputs))

FeeOf(tx) == IF IsCoinbaseTx(tx) THEN 0 ELSE InputValues(tx.inputs) - SumValues(tx.outputs)

RECURSIVE FeesOf(_)
FeesOf(txs) == IF txs = <<>> THEN 0 ELSE FeeOf(Head(txs)) + FeesOf(Tail(txs))

\* the height of the block id: the number of its ancestors
HeightOf(id) == Len(ChainOf(id)) - 1

\* the handler h is a block handler whose transactions have all been ensured
\* and goes through the checks that follow in this step
ChecksBlock(h) ==
    /\ hd[h[1]][h[2]].pc = "ensure_check" /\ hd[h[1]][h[2]].cont = "afterTxs"
    /\ IsBlockObject(hd[h[1]][h[2]].msg)
    /\ hd'[h[1]][h[2]].pc \notin {"ensure_check", "ensure_wait"}

\* the UTXO set the replay of the block starts from is in the index
ParentSetThere(block) == block.previd = NULL \/ Has(utxos, block.previd)

\* the replay of the block's transactions on its parent's UTXO set succeeds
ReplayOf(block) ==
    Replay([err |-> "OK",
            utxoSet |-> IF block.previd = NULL THEN <<>> ELSE utxos[block.previd],
            fee |-> 0], TxsOf(block))

\* the step ends the handler h with the error name and nothing else to show
Rejects(h, name) ==
    /\ hd'[h[1]][h[2]].pc = "idle"
    /\ ErrorsTo(h[1], sent') = {name}
    /\ db' = db /\ chaintip' = chaintip
    /\ mempoolUTXOs' = mempoolUTXOs /\ mempoolTXs' = mempoolTXs

\* C21: the mempool changes only in the step that completes the write of the
\* new chaintip, to the mempool computed for that chaintip (or in the store
\* step of a regular transaction, which leaves the chaintip alone); no step
\* gives the mempool its new value while the chaintip store holds the old one.
C21_MempoolAfterChaintip ==
    [][(mempoolTXs' # mempoolTXs \/ mempoolUTXOs' # mempoolUTXOs) =>
          \E h \in Handlers :
              LET a == hd[h[1]][h[2]] IN
              /\ hd'[h[1]][h[2]] # a
              /\ \/ /\ a.pc = "commit"
                    /\ Has(chaintip', CHAINTIP)
                    /\ chaintip'[CHAINTIP].hash = hashObject(a.msg.object)
                    /\ mempoolTXs' = a.newMempoolTXs /\ mempoolUTXOs' = a.newMempoolUTXOs
                 \/ /\ a.pc = "store" /\ IsRegularObject(a.msg)
                    /\ chaintip' = chaintip]_vars

\* C21 witness: the reorganization from A to F1 has computed its mempool and
\* waits for the write of the chaintip: the chaintip store still names A and
\* the mempool, which holds t1, is not yet the one computed for F1.
C21_Witness ==
    \E h \in Handlers :
        /\ hd[h[1]][h[2]].pc = "commit" /\ hd[h[1]][h[2]].msg.object = Objects["F1"]
        /\ HasTip /\ Tip.hash = "A"
        /\ \E i \in 1..Len(mempoolTXs) : mempoolTXs[i] = "t1"
        /\ hd[h[1]][h[2]].newMempoolUTXOs # mempoolUTXOs

\* C22: a block without previd is stored only if it is the genesis block, and
\* delivering another one is answered with INVALID_GENESIS and leaves the
\* stores alone; when the genesis block is all the node has stored, the
\* chaintip is the genesis block with height 0 and the UTXO set written for
\* it is empty.
C22_Genesis ==
    /\ [](\A id \in DOMAIN db :
             (db[id].type = "block" /\ db[id].previd = NULL) => id = GENESIS_BLOCK)
    /\ []((DOMAIN db = {GENESIS_BLOCK}) =>
             /\ HasTip
             /\ Tip = [hash |-> GENESIS_BLOCK, block |-> Objects[GENESIS_BLOCK], height |-> 0]
             /\ Has(utxos, GENESIS_BLOCK) \/ Has(utxoPuts, GENESIS_BLOCK)
             /\ Has(utxos, GENESIS_BLOCK) => utxos[GENESIS_BLOCK] = <<>>
             /\ Has(utxoPuts, GENESIS_BLOCK) => utxoPuts[GENESIS_BLOCK] = <<>>)
    /\ [][\A id \in ObjIds :
             ( /\ Objects[id].type = "block" /\ Objects[id].previd = NULL
               /\ id # GENESIS_BLOCK
               /\ HashOrd(id) < Objects[id].T /\ Objects[id].created <= NOW
               /\ Data("s1", <<"object", id, NL>>) )
             => /\ ErrorsTo("s1", sent') = {"INVALID_GENESIS"}
                /\ db' = db /\ chaintip' = chaintip
                /\ utxos' = utxos /\ utxoPuts' = utxoPuts]_vars

\* C22 witness: the genesis block is all the node has stored, and G2, another
\* block without previd, has just been refused.
C22_Witness ==
    /\ DOMAIN db = {GENESIS_BLOCK}
    /\ "INVALID_GENESIS" \in ErrorsTo("s1", sent)

\* C23: a block in which two regular transactions spend the same outpoint,
\* replayed on the UTXO set of its parent, is refused with
\* INVALID_TX_OUTPOINT, and before any UTXO set is written for it.
C23_DoubleSpendInBlock ==
    [][\A h \in Handlers :
          LET block == hd[h[1]][h[2]].msg.object IN
          ( /\ ChecksBlock(h) /\ ParentSetThere(block)
            /\ DoubleSpends(block) /\ ~SpendsOwnCoinbase(block) )
          => /\ Rejects(h, "INVALID_TX_OUTPOINT")
             /\ utxoPuts' = utxoPuts /\ utxos' = utxos]_vars

\* C23 witness: block D, with t1 and t2 that both spend output 0 of cA, is at
\* its replay, on a UTXO set of A that holds that output.
C23_Witness ==
    \E h \in Handlers :
        /\ hd[h[1]][h[2]].pc = "ensure_check" /\ hd[h[1]][h[2]].cont = "afterTxs"
        /\ hd[h[1]][h[2]].msg.object = Objects["D"]
        /\ {"t1", "t2"} \subseteq DOMAIN db
        /\ Has(utxos, "A") /\ hasUTXO(utxos["A"], "cA", 0)
        /\ updateUTXO(utxos["A"], Objects["t1"]).err = "OK"

\* C24: a block whose replay succeeds but in which a transaction spends
\* output 0 of the block's own coinbase is refused with INVALID_TX_OUTPOINT.
C24_CoinbaseSpentInBlock ==
    [][\A h \in Handlers :
          LET block == hd[h[1]][h[2]].msg.object IN
          ( /\ ChecksBlock(h) /\ ParentSetThere(block)
            /\ SpendsOwnCoinbase(block) /\ ReplayOf(block).err = "OK" )
          => Rejects(h, "INVALID_TX_OUTPOINT")]_vars

\* C24 witness: block Y, with the coinbase cA and t1 that spends it, is at
\* its replay on the (empty) UTXO set of G.
C24_Witness ==
    \E h \in Handlers :
        /\ hd[h[1]][h[2]].pc = "ensure_check" /\ hd[h[1]][h[2]].cont = "afterTxs"
        /\ hd[h[1]][h[2]].msg.object = Objects["Y"]
        /\ {"cA", "t1"} \subseteq DOMAIN db
        /\ Has(utxos, "G")

\* C25: the coinbase of every stored block is worth at most BLOCK_REWARD plus
\* the fees of the block's regular transactions (inputs less outputs, in
\* integers of unbounded width), and a block whose coinbase is worth more,
\* and that has no other fault, is refused with INVALID_BLOCK_COINBASE.
C25_CoinbaseValue ==
    /\ [](\A id \in DOMAIN db :
             (db[id].type = "block" /\ HasCoinbase(db[id])) =>
                TxsOf(db[id])[1].outputs[1].value
                   <= BLOCK_REWARD + FeesOf(TxsOf(db[id])))
    /\ [][\A h \in Handlers :
             LET block == hd[h[1]][h[2]].msg.object IN
             ( /\ ChecksBlock(h) /\ ParentSetThere(block) /\ HasCoinbase(block)
               /\ ~SpendsOwnCoinbase(block) /\ ReplayOf(block).err = "OK"
               /\ TxsOf(block)[1].outputs[1].value
                     > BLOCK_REWARD + FeesOf(TxsOf(block)) )
             => Rejects(h, "INVALID_BLOCK_COINBASE")]_vars

\* C25 witness: F1, whose coinbase takes the reward and the whole fee of t1,
\* is stored; F2, whose coinbase takes one unit more, has just been refused.
C25_Witness ==
    /\ Has(db, "F1") /\ ~Has(db, "F2") /\ ~Has(db, "Z")
    /\ \E h \in Handlers : hd[h[1]][h[2]].pc = "idle"
    /\ "INVALID_BLOCK_COINBASE" \in ErrorsTo("s1", sent)
    /\ Has(db, "cF2")

\* C26: the coinbase of every stored block has the height of the block (that
\* of its parent plus one, 0 for genesis), and a block whose coinbase has
\* another height, and that has no other fault, is refused with
\* INVALID_BLOCK_COINBASE.
C26_CoinbaseHeight ==
    /\ [](\A id \in DOMAIN db :
             (db[id].type = "block" /\ HasCoinbase(db[id])) =>
                TxsOf(db[id])[1].height = HeightOf(id))
    /\ [][\A h \in Handlers :
             LET block == hd[h[1]][h[2]].msg.object IN
             ( /\ ChecksBlock(h) /\ ParentSetThere(block) /\ HasCoinbase(block)
               /\ ~SpendsOwnCoinbase(block) /\ ReplayOf(block).err = "OK"
               /\ TxsOf(block)[1].height # HeightOf(hashObject(block)) )
             => Rejects(h, "INVALID_BLOCK_COINBASE")]_vars

\* C26 witness: A (height 1) and F1 (height 2) are stored with coinbases of
\* their heights, and X, a block of height 2 with the coinbase of A, is at
\* its checks.
C26_Witness ==
    /\ {"A", "F1"} \subseteq DOMAIN db
    /\ \E h \in Handlers :
          /\ hd[h[1]][h[2]].pc = "ensure_check" /\ hd[h[1]][h[2]].cont = "afterTxs"
          /\ hd[h[1]][h[2]].msg.object = Objects["X"]
          /\ Has(utxos, "A")

\* C27: every stored block has a hash below the target and a timestamp not
\* after the clock, and its parent, if it names one, is a stored block with a
\* strictly smaller timestamp.
C27_StoredBlocks ==
    \A id \in DOMAIN db :
        db[id].type = "block" =>
           /\ HashOrd(id) < db[id].T
           /\ db[id].created <= NOW
           /\ db[id].previd # NULL =>
                 /\ Has(db, db[id].previd)
                 /\ db[db[id].previd].type = "block"
                 /\ db[db[id].previd].created < db[id].created

\* C27 witness: with A and the transaction cA stored, a block has just been
\* refused for its timestamp (Fu is in the future, Ts not later than its
\* parent A), and none of the faulty blocks is stored.
C27_Witness ==
    /\ {"A", "cA"} \subseteq DOMAIN db
    /\ DOMAIN db \cap {"Pw", "Fu", "Ts", "Pt"} = {}
    /\ "INVALID_BLOCK_TIMESTAMP" \in ErrorsTo("s1", sent)

----------------------------------------------------------------------------
(* C28: the size of a UTXO view after a transaction is applied to it.      *)

\* C28: the store step of a regular transaction that applies to the mempool
\* leaves a view with one entry less per input and one more per output.
C28_ExactCount ==
    [][\A h \in Handlers :
          LET a == hd[h[1]][h[2]] IN
          ( /\ a.pc = "store" /\ hd'[h[1]][h[2]] # a /\ IsRegularObject(a.msg)
            /\ applyTransaction(a.msg.object, mempoolUTXOs, mempoolTXs).err = "OK" )
          => Len(mempoolUTXOs') = Len(mempoolUTXOs) - Len(a.msg.object.inputs)
                                     + Len(a.msg.object.outputs)]_vars

----------------------------------------------------------------------------
(* SpecNet: the node has just started.  The loop at the end of the module  *)
(* has called connectToPeer for every bootstrap peer and each call waits   *)
(* for its connection; two peers that connected to the server have         *)
(* completed their handshake.  The peer of s1 sends a hello or a peers     *)
(* message in chunks cut anywhere; the bootstrap peers send nothing.       *)

\* handleConnection(socket) up to the registration of its listeners
handleConnection(st, s) ==
    LET fresh == [destroyed |-> FALSE, saidHello |-> FALSE, buffer |-> <<>>,
                  timeoutID |-> "hello", leaked |-> {}]
        st1 == [st EXCEPT !.sockets = @ \cup {s},
                          !.ss = [x \in DOMAIN @ \cup {s} |-> IF x = s THEN fresh ELSE @[x]],
                          !.hd = [x \in DOMAIN @ \cup {s} |->
                                     IF x = s THEN [k \in Slots |-> IdleH] ELSE @[x]]]
        st2 == sendMessage(st1, s, [type |-> "hello"])
        st3 == sendMessage(st2, s, [type |-> "getpeers"])
        st4 == sendMessage(st3, s, [type |-> "getchaintip"])
    IN sendMessage(st4, s, [type |-> "getmempool"])

\* connectToPeer(peer): socket.connect resolves and the socket is handled
Connected(peer) ==
    /\ peer \in DOMAIN dials /\ dials[peer] = "connecting"
    /\ Set(handleConnection([St EXCEPT !.dials[peer] = "connected"], peer))

\* connectToPeer(peer): socket.connect rejects, which is logged
ConnectFailed(peer) ==
    /\ peer \in DOMAIN dials /\ dials[peer] = "connecting"
    /\ Set([St EXCEPT !.dials[peer] = "failed"])

InitNet ==
    /\ db = EmptyStore
    /\ utxos = EmptyStore
    /\ utxoPuts = EmptyStore
    /\ chaintip = EmptyStore
    /\ mempoolUTXOs = <<>>
    /\ mempoolTXs = <<>>
    /\ peers = BootstrapPeers
    /\ sockets = Sessions
    /\ hd = [s \in Sessions |-> [k \in Slots |-> IdleH]]
    /\ sent = {}
    /\ ss = [s \in Sessions |-> [destroyed |-> FALSE, saidHello |-> TRUE, buffer |-> <<>>,
                                 timeoutID |-> "none", leaked |-> {}]]
    /\ dials = [p \in BootstrapPeers |-> "connecting"]

NetChunks == { <<"hel">>, <<"lo">>, <<NL>>, <<"peers", "p1", NL>> }

NextNet ==
    \/ \E chunk \in NetChunks : Data("s1", chunk)
    \/ \E peer \in BootstrapPeers : Connected(peer)
    \/ \E peer \in BootstrapPeers : ConnectFailed(peer)
    \/ \E s \in DOMAIN ss, timer \in {"hello", "partial"} : TimerFire(s, timer)
    \/ \E s \in DOMAIN ss : PeerEnd(s)

SpecNet == InitNet /\ [][NextNet]_vars

\* C29: the connections opened by connectToPeer are at most
\* DESIRED_CONNECTIONS.
C29_DialsWithinTarget ==
    Cardinality({p \in DOMAIN dials : dials[p] = "connected"}) <= DESIRED_CONNECTIONS

\* C30: no timer closes, with INVALID_FORMAT, a session that has completed
\* its handshake and every line it began.
C30_NoStaleTimer ==
    [][\A s \in Sessions :
          (ss[s].saidHello /\ ss[s].buffer = <<>> /\ ~ss[s].destroyed /\ InFlight(s) = {})
          => ~( /\ ss'[s].destroyed
                /\ [to |-> s, msg |-> ErrorMsg("INVALID_FORMAT", TIMED_OUT)] \in sent' )]_vars

----------------------------------------------------------------------------
(* C31..C39: the fetches, the closed session and the chain.                *)

\* C31: the handler of a chaintip message sends no UNFINDABLE_OBJECT to its
\* session, whatever becomes of the fetch of the block.
C31_ChaintipFireAndForget ==
    [][\A h \in Handlers :
          ( /\ hd[h[1]][h[2]].msg.type = "chaintip"
            /\ hd'[h[1]][h[2]] # hd[h[1]][h[2]] )
          => "UNFINDABLE_OBJECT" \notin ErrorsTo(h[1], sent')]_vars

\* C32: the block the chaintip store names is in the object store.
C32_ChaintipStored == HasTip => Has(db, Tip.hash)

\* C33: for every stored block, its previd (if any) is the id of a stored
\* block and each of its txids is the id of a stored transaction.
C33_ClosedUnderReferences ==
    \A id \in DOMAIN db :
        db[id].type = "block" =>
           /\ db[id].previd # NULL =>
                 Has(db, db[id].previd) /\ db[db[id].previd].type = "block"
           /\ \A i \in 1..Len(db[id].txids) :
                 Has(db, db[id].txids[i]) /\ db[db[id].txids[i]].type = "transaction"

\* C33 witness: B, with the parent A and the transaction t1 (which spends the
\* coinbase cA of A), is stored next to the competing block A2.
C33_Witness ==
    /\ {"B", "A2"} \subseteq DOMAIN db
    /\ db["B"].previd = "A" /\ db["B"].txids = <<"t1">>

----------------------------------------------------------------------------
(* SpecLines: two sockets past the handshake.  The peer of s1 sends chunks *)
(* that hold two lines; the peer of s2 can deliver the genesis block.      *)

\* the tokens a chunk of two lines may bring the buffer to
MaxBacklog == 5

LineChunks ==
    { <<"chaintip", "G", NL, "getpeers", NL>>,
      <<"object", "t1", NL, "getpeers", NL>>,
      <<"getpeers", NL, "getchaintip", NL>> }

\* socket.stream.on('data') for a chunk of several lines
DataLines(s, chunk) ==
    \E k \in Slots :
        /\ ~ss[s].destroyed
        /\ hd[s][k].pc = "idle"
        /\ \A j \in 1..(k-1) : hd[s][j].pc # "idle"
        /\ Len(ss[s].buffer) + Len(chunk) <= MaxBacklog
        /\ Set(DataStep(St, s, k, chunk))

NextLines ==
    \/ \E chunk \in LineChunks : DataLines("s1", chunk)
    \/ Deliver("s2", "G")
    \/ \E s \in Sessions, k \in Slots : Resume(s, k)
    \/ \E key \in ObjIds : UtxoPut(key)

SpecLines == Init /\ [][NextLines]_vars

\* C35: on an open session whose handlers have all returned, no complete
\* line is left in the buffer.
C35_NoLineLeftBehind ==
    \A s \in Sessions :
        (~ss[s].destroyed /\ InFlight(s) = {}) => ~HasNL(ss[s].buffer)

\* C36: a handler of a session that is closed takes no step that changes the
\* object store, the UTXO index (or what is being written to it), the
\* chaintip store, the mempool or the peers.
C36_ClosedIsTerminal ==
    [][\A h \in Handlers :
          ( /\ ss[h[1]].destroyed
            /\ hd'[h[1]][h[2]].pc # hd[h[1]][h[2]].pc )
          => /\ db' = db /\ utxos' = utxos /\ utxoPuts' = utxoPuts
             /\ chaintip' = chaintip
             /\ mempoolUTXOs' = mempoolUTXOs /\ mempoolTXs' = mempoolTXs
             /\ peers' = peers]_vars

\* no two entries of the UTXO set name the same output
NoTwice(utxoSet) ==
    \A i, j \in 1..Len(utxoSet) :
        (utxoSet[i].txid = utxoSet[j].txid /\ utxoSet[i].index = utxoSet[j].index) => i = j

\* C37: mempoolTXs holds no id twice, and neither mempoolUTXOs nor a UTXO set
\* of the index holds an output twice.
C37_NoDuplicates ==
    /\ \A i, j \in 1..Len(mempoolTXs) : mempoolTXs[i] = mempoolTXs[j] => i = j
    /\ NoTwice(mempoolUTXOs)
    /\ \A id \in DOMAIN utxos : NoTwice(utxos[id])

----------------------------------------------------------------------------
(* SpecRace: two sockets past the handshake.  The peer of s1 delivers the  *)
(* chain G, A with its coinbase and the transaction t1 that spends it; the *)
(* peer of s2 delivers E, a block on A.                                    *)

OffersRace(s) == IF s = "s1" THEN {"G", "cA", "A", "t1"} ELSE {"E"}

DeliverNew(s, id) == ~Has(db, id) /\ Deliver(s, id)

NextRace ==
    \/ \E s \in Sessions : \E id \in OffersRace(s) : DeliverNew(s, id)
    \/ \E s \in Sessions, k \in Slots : Resume(s, k)
    \/ \E key \in ObjIds : UtxoPut(key)

SpecRace == Init /\ [][NextRace]_vars

\* the ids of the sequence txs
IdsOf(txs) == {txs[i] : i \in 1..Len(txs)}

\* every input of the regular transaction tx is in the UTXO set
InputsIn(utxoSet, tx) ==
    \A i \in 1..Len(tx.inputs) :
        hasUTXO(utxoSet, tx.inputs[i].outpoint.txid, tx.inputs[i].outpoint.index)

\* C38: a transaction that entered the mempool after a reorganization read
\* it, and whose inputs are unspent in the view the reorganization computed,
\* is in mempoolTXs after the reorganization is committed.
C38_NoLostTransaction ==
    [][\A h \in Handlers :
          LET a == hd[h[1]][h[2]] IN
          (a.pc = "commit" /\ hd'[h[1]][h[2]].pc # "commit") =>
             \A txid \in IdsOf(mempoolTXs) \ IdsOf(a.transactionsToApply) :
                 ( /\ "inputs" \in DOMAIN Objects[txid]
                   /\ InputsIn(a.newMempoolUTXOs, Objects[txid]) )
                 => txid \in IdsOf(mempoolTXs')]_vars

\* C39: the height in the chaintip store is the number of previd links from
\* the chaintip block back to the genesis block.
C39_TipHeight == HasTip => Tip.height = HeightOf(Tip.hash)

\* C39 witness: the chaintip is B, a block without coinbase on A, at height 2.
C39_Witness == HasTip /\ Tip.hash = "B" /\ Tip.height = 2 /\ Has(db, "A2")

====
